---- MODULE Spec2Model ----
(***************************************************************************)
(* Model of src/main.py: the FastAPI service that turns free text into a   *)
(* structured command with a language model (nl_to_gas_payload), checks    *)
(* the two required body fields (validate_task_fields) and posts the       *)
(* command to the spreadsheet webhook (ingest).                            *)
(*                                                                         *)
(* Strings are sequences of characters.  TLA+ strings are ASCII, so the    *)
(* Japanese characters and dictionary keys of the source are written in    *)
(* romaji:                                                                 *)
(*   "dare" = U+8AB0 (who)            "qf" = U+FF1F (full-width ?)         *)
(*   "tan","tou","de","su","ka" = the five characters of tantou-desu-ka    *)
(*   "ki","gen" = the two characters of kigen (due date)                   *)
(*   "ya","ma" = an ordinary name     "1","2" = an ordinary date           *)
(*   keys: "tantou" (assignee), "kigen" (due date), "tsuikabi" (added      *)
(*   date), "koyuuID" (unique id), "naiyou" (content)                      *)
(***************************************************************************)
EXTENDS Naturals, Sequences, FiniteSets, TLC

(***************************************************************************)
(* Bounds of the model.                                                    *)
(***************************************************************************)
MaxLen == 2   \* length of the generated field texts of SpecValidate
MaxReq == 1   \* number of ingest requests of Spec; SpecPair has one more
MaxDay == 2   \* the server's clock runs over the days 1..MaxDay

(***************************************************************************)
(* Python string operations used by the source.                            *)
(***************************************************************************)
\* whitespace characters, as str.strip() sees them
Whitespace == {" "}

RECURSIVE LStrip(_)
LStrip(s) ==
    IF s # <<>> /\ Head(s) \in Whitespace THEN LStrip(Tail(s)) ELSE s

RECURSIVE RStrip(_)
RStrip(s) ==
    IF s # <<>> /\ s[Len(s)] \in Whitespace
    THEN RStrip(SubSeq(s, 1, Len(s) - 1))
    ELSE s

\* str.strip()
Strip(s) == RStrip(LStrip(s))

\* Python's "x in s" on strings: x occurs in s as a contiguous substring
Contains(x, s) ==
    \E i \in 1..(Len(s) + 1) :
        /\ i + Len(x) - 1 <= Len(s)
        /\ SubSeq(s, i, i + Len(x) - 1) = x

\* any(x in s for x in markers)
AnyIn(markers, s) == \E x \in markers : Contains(x, s)

\* dict.get(key, default)
Get(d, key, default) == IF key \in DOMAIN d THEN d[key] ELSE default

(***************************************************************************)
(* validate_task_fields                                                    *)
(***************************************************************************)
\* the marker list of line 141
TantouMarkers ==
    { <<"dare">>, <<"tan", "tou", "de", "su", "ka">>, <<"qf">>, <<"?">> }

\* the marker list of line 149
KigenMarkers == { <<"ki", "gen">>, <<"qf">>, <<"?">> }

\* the two messages
TantouPrompt == "dare no task wo tsuika shimasu ka"
KigenPrompt == "kigen wa itsu ni shimasu ka"

NeedsUser(msg) == [ok |-> FALSE, needs_user |-> TRUE, message |-> msg]

\* the first check, line 141
TantouUnsettled(tantou) == tantou = <<>> \/ AnyIn(TantouMarkers, tantou)

\* the second check, line 149
KigenUnsettled(kigen) == kigen = <<>> \/ AnyIn(KigenMarkers, kigen)

\* validate_task_fields without the two strip() calls
validate_unstripped(gas_payload) ==
    LET body == gas_payload.body
        tantou == Get(body, "tantou", <<>>)
        kigen == Get(body, "kigen", <<>>)
    IN  IF TantouUnsettled(tantou) THEN NeedsUser(TantouPrompt)
        ELSE IF KigenUnsettled(kigen) THEN NeedsUser(KigenPrompt)
        ELSE [ok |-> TRUE]

\* validate_task_fields with the due date checked before the assignee
validate_kigen_first(gas_payload) ==
    LET body == gas_payload.body
        tantou == Strip(Get(body, "tantou", <<>>))
        kigen == Strip(Get(body, "kigen", <<>>))
    IN  IF KigenUnsettled(kigen) THEN NeedsUser(KigenPrompt)
        ELSE IF TantouUnsettled(tantou) THEN NeedsUser(TantouPrompt)
        ELSE [ok |-> TRUE]

validate_task_fields(gas_payload) ==
    LET body == gas_payload.body
        tantou == Strip(Get(body, "tantou", <<>>))
        kigen == Strip(Get(body, "kigen", <<>>))
    IN  IF TantouUnsettled(tantou) THEN NeedsUser(TantouPrompt)
        ELSE IF KigenUnsettled(kigen) THEN NeedsUser(KigenPrompt)
        ELSE [ok |-> TRUE]

(***************************************************************************)
(* Python values and exceptions.  None is Python's None: an environment    *)
(* variable that is not set, a header that was not sent.                   *)
(***************************************************************************)
None == "None"

\* Python's "a or b" on an optional string
OrElse(a, b) == IF a = None \/ a = "" THEN b ELSE a

\* HTTPException(status_code, detail)
HTTPException(status, detail) == [raised |-> TRUE, status_code |-> status, detail |-> detail]

\* a value returned without raising
Returned(v) == [raised |-> FALSE, value |-> v]

\* datetime.now().strftime("%Y/%m/%d") for the day d of the clock
DayText == <<"01", "02", "03", "04", "05", "06", "07", "08", "09">>
strftime(d) == <<"2026/11/", DayText[d]>>

(***************************************************************************)
(* nl_to_gas_payload.  The model call is an external step; llm is what it  *)
(* gave back: [kind |-> "raise"] (the call raised), [kind |-> "text"]      *)
(* (content that is not JSON), [kind |-> "list"] (JSON that is no object)  *)
(* or [kind |-> "dict", data |-> d] (a JSON object d).                     *)
(***************************************************************************)
\* get_openai_client, lines 14-21, for the value os.getenv gives at line 14
get_openai_client(openai_api_key) ==
    IF OrElse(openai_api_key, "") = ""
    THEN HTTPException(500, "OPENAI_API_KEY is not set")
    ELSE Returned("client")

\* lines 120-122 left out: the model's date is kept
StampBody_kept(data, today) == data

\* lines 120-122: the date is overwritten when data has a body
StampBody(data, today) ==
    IF "body" \in DOMAIN data
    THEN [data EXCEPT !["body"] =
             [k \in (DOMAIN data["body"]) \cup {"tsuikabi"} |->
                 IF k = "tsuikabi" THEN today ELSE data["body"][k]]]
    ELSE data

\* lines 124-129
GasPayload(data) ==
    [token |-> "recora-secret-0324",
     intent |-> Get(data, "intent", "write"),
     sheet |-> Get(data, "sheet", "task-list"),
     body |-> Get(data, "body", <<>>)]

\* lines 114-129 with an object that lacks body, tantou or kigen refused
nl_to_gas_payload_strict(llm, today) ==
    CASE llm.kind = "raise" -> [raised |-> TRUE, status_code |-> 0, detail |-> "APIError"]
      [] llm.kind = "text" -> HTTPException(502, "LLM output JSON parse error")
      [] llm.kind = "list" -> [raised |-> TRUE, status_code |-> 0, detail |-> "AttributeError"]
      [] OTHER ->
           IF /\ "body" \in DOMAIN llm.data
              /\ {"tantou", "kigen"} \subseteq DOMAIN llm.data["body"]
           THEN Returned(GasPayload(StampBody(llm.data, today)))
           ELSE HTTPException(502, "LLM output lacks required keys")

\* lines 114-129, given the model's answer and the today of line 90
nl_to_gas_payload(llm, today) ==
    CASE llm.kind = "raise" -> [raised |-> TRUE, status_code |-> 0, detail |-> "APIError"]
      [] llm.kind = "text" -> HTTPException(502, "LLM output JSON parse error")
      [] llm.kind = "list" -> [raised |-> TRUE, status_code |-> 0, detail |-> "AttributeError"]
      [] OTHER -> Returned(GasPayload(StampBody(llm.data, today)))

(***************************************************************************)
(* State.                                                                  *)
(***************************************************************************)
VARIABLES
    SERVER_API_KEY,   \* line 33, read once when the module is loaded
    GAS_WEBAPP_URL,   \* line 31, read once when the module is loaded
    OPENAI_API_KEY,   \* the environment variable that line 14 reads
    now,              \* the server's clock: the day datetime.now() gives
    req,              \* the ingest requests: position, arguments, locals, response
    sink,             \* the POSTs issued to the webhook (line 188)
    vbody,            \* SpecValidate: the body handed to validate_task_fields
    vresult           \* SpecValidate: <<what it returned>>, <<>> before the call

vars == <<SERVER_API_KEY, GAS_WEBAPP_URL, OPENAI_API_KEY, now, req, sink, vbody, vresult>>
config == <<SERVER_API_KEY, GAS_WEBAPP_URL, OPENAI_API_KEY>>

\* the requests of the behaviour: 1..MaxReq in Spec, 1..MaxReq+1 in SpecPair
Reqs == DOMAIN req
Days == 1..MaxDay

(***************************************************************************)
(* The inputs of ingest.  caller is the identity of the HTTP client that   *)
(* sent the request and payload["idempotency_key"] a key of its envelope;  *)
(* the handler reads neither.  Each caller uses one key.                   *)
(***************************************************************************)
Callers == {"c1", "c2"}
IdemKeyOf == [c \in Callers |-> IF c = "c1" THEN "k1" ELSE "k2"]
ApiKeyHeaders == {None, "secret", "wrong"}
UserTexts == { <<" ">>, <<" ", "1", "2">> }

PayloadsOf(c) ==
    { [idempotency_key |-> IdemKeyOf[c]] }
    \cup { [user_text |-> t, idempotency_key |-> IdemKeyOf[c]] : t \in UserTexts }

(***************************************************************************)
(* What the model may answer.                                              *)
(***************************************************************************)
\* a dict from a record of which the fields that are Absent are dropped
Absent == <<"absent">>
DropAbsent(d) == [k \in {j \in DOMAIN d : d[j] # Absent} |-> d[k]]

\* what the model may put into the two required fields and into the date
TantouTexts == { Absent, <<"ya", "ma">>, <<"dare">> }
KigenTexts == { Absent, <<" ">>, <<"1", "2">>, <<"ki", "gen", "?">> }
TsuikabiTexts == { Absent, <<"1999/01/01">> }

LLMBody(a, g, t) ==
    DropAbsent([koyuuID |-> <<>>, naiyou |-> <<"a">>,
                tantou |-> a, kigen |-> g, tsuikabi |-> t])

\* every pair of required fields with a date; the complete pair without a date too
LLMBodies ==
    { LLMBody(a, g, <<"1999/01/01">>) : a \in TantouTexts, g \in KigenTexts }
    \cup { LLMBody(<<"ya", "ma">>, <<"1", "2">>, Absent) }

\* objects with all three keys, objects with a body only, objects without a body
LLMDicts ==
    { [intent |-> "append", sheet |-> "other-sheet", body |-> b] : b \in LLMBodies }
    \cup { [body |-> LLMBody(<<"ya", "ma">>, <<"1", "2">>, t)] : t \in TsuikabiTexts }
    \cup { [intent |-> "append", sheet |-> "other-sheet"], <<>> }

LLMAnswers ==
    { [kind |-> "raise"], [kind |-> "text"], [kind |-> "list"] }
    \cup { [kind |-> "dict", data |-> d] : d \in LLMDicts }

\* what the webhook may do with a POST: raise (unreachable, timeout) or answer
SinkAnswers ==
    { [kind |-> "raise"],
      [kind |-> "response", status_code |-> 200, text_len |-> 1500],
      [kind |-> "response", status_code |-> 302, text_len |-> 0],
      [kind |-> "response", status_code |-> 500, text_len |-> 0] }

\* r.ok of requests: the status is below 400
ResponseOk(status_code) == status_code < 400

\* line 197: the echoed text is cut to its first 1000 characters
TextLimit == 1000
Truncate(n) == IF n < TextLimit THEN n ELSE TextLimit

-----------------------------------------------------------------------------
NoReq ==
    [pc |-> "idle", caller |-> None, x_api_key |-> None, payload |-> <<>>,
     after |-> {}, today |-> <<>>, llm |-> [kind |-> "none"],
     gas_payload |-> <<>>, gas |-> [kind |-> "none"], resp |-> <<>>]

Init ==
    /\ SERVER_API_KEY \in {None, "secret"}
    /\ GAS_WEBAPP_URL \in {None, "https://gas"}
    /\ OPENAI_API_KEY \in {None, "sk"}
    /\ now = 1
    /\ req = [r \in 1..MaxReq |-> NoReq]
    /\ sink = {}
    /\ vbody = <<>>
    /\ vresult = <<>>

\* the response to an HTTPException
Error(status, detail) == [http |-> status, detail |-> detail]
\* the response to a returned value
Ok200(body) == [http |-> 200, body |-> body]

Done(r) == req[r].pc = "done"

\* the clock passes midnight
Tick ==
    /\ now < MaxDay
    /\ now' = now + 1
    /\ UNCHANGED <<config, req, sink, vbody, vresult>>

\* lines 164-165
Unauthorized(x_api_key) == OrElse(SERVER_API_KEY, "") # OrElse(x_api_key, "")

\* line 167
user_text(payload) == Strip(OrElse(Get(payload, "user_text", None), <<>>))

\* ingest, lines 163-172 and 11-112: from the arrival of the request to the
\* model call.  The requests are numbered in the order of their arrival.
IngestBegin(r, caller, x_api_key, payload) ==
    /\ req[r].pc = "idle"
    /\ \A q \in Reqs : q < r => req[q].pc # "idle"
    /\ LET arrived == [req[r] EXCEPT !.caller = caller, !.x_api_key = x_api_key,
                                     !.payload = payload,
                                     !.after = {q \in Reqs : Done(q)}]
           client == get_openai_client(OPENAI_API_KEY)
       IN  req' = [req EXCEPT ![r] =
             IF Unauthorized(x_api_key)
             THEN [arrived EXCEPT !.pc = "done", !.resp = Error(401, "Unauthorized")]
             ELSE IF user_text(payload) = <<>>
             THEN [arrived EXCEPT !.pc = "done", !.resp = Error(400, "user_text required")]
             ELSE IF client.raised
             THEN [arrived EXCEPT !.pc = "done",
                       !.resp = Error(500, <<"nl_to_gas_payload error", client.detail>>)]
             ELSE [arrived EXCEPT !.pc = "llm", !.today = strftime(now)]]
    /\ UNCHANGED <<config, now, sink, vbody, vresult>>

\* IngestExtracted with the POST issued before the validation of line 179
IngestExtracted_post_first(r, llm) ==
    /\ req[r].pc = "llm"
    /\ LET got == nl_to_gas_payload(llm, req[r].today)
           heard == [req[r] EXCEPT !.llm = llm]
       IN  IF got.raised
           THEN /\ req' = [req EXCEPT ![r] = [heard EXCEPT !.pc = "done",
                       !.resp = Error(500, <<"nl_to_gas_payload error", got.detail>>)]]
                /\ sink' = sink
           ELSE LET gas_payload == got.value
                    validation == validate_task_fields(gas_payload)
                    built == [heard EXCEPT !.gas_payload = gas_payload]
                IN  IF OrElse(GAS_WEBAPP_URL, "") = ""
                    THEN /\ req' = [req EXCEPT ![r] = [built EXCEPT !.pc = "done",
                                !.resp = Error(500, "GAS_WEBAPP_URL is not set")]]
                         /\ sink' = sink
                    ELSE /\ sink' = sink \cup
                                {[req |-> r, json |-> gas_payload, day |-> strftime(now)]}
                         /\ req' = [req EXCEPT ![r] =
                                IF ~validation.ok
                                THEN [built EXCEPT !.pc = "done", !.resp = Ok200(validation)]
                                ELSE [built EXCEPT !.pc = "gas"]]
    /\ UNCHANGED <<config, now, vbody, vresult>>

\* ingest, lines 114-129 and 173-193: from the model's answer to the POST
IngestExtracted(r, llm) ==
    /\ req[r].pc = "llm"
    /\ LET got == nl_to_gas_payload(llm, req[r].today)
           heard == [req[r] EXCEPT !.llm = llm]
       IN  IF got.raised
           THEN /\ req' = [req EXCEPT ![r] = [heard EXCEPT !.pc = "done",
                       !.resp = Error(500, <<"nl_to_gas_payload error", got.detail>>)]]
                /\ sink' = sink
           ELSE LET gas_payload == got.value
                    validation == validate_task_fields(gas_payload)
                    built == [heard EXCEPT !.gas_payload = gas_payload]
                IN  IF ~validation.ok
                    THEN /\ req' = [req EXCEPT ![r] =
                                [built EXCEPT !.pc = "done", !.resp = Ok200(validation)]]
                         /\ sink' = sink
                    ELSE IF OrElse(GAS_WEBAPP_URL, "") = ""
                    THEN /\ req' = [req EXCEPT ![r] = [built EXCEPT !.pc = "done",
                                !.resp = Error(500, "GAS_WEBAPP_URL is not set")]]
                         /\ sink' = sink
                    ELSE /\ req' = [req EXCEPT ![r] = [built EXCEPT !.pc = "gas"]]
                         /\ sink' = sink \cup
                                {[req |-> r, json |-> gas_payload, day |-> strftime(now)]}
    /\ UNCHANGED <<config, now, vbody, vresult>>

\* IngestPosted with r.raise_for_status() after the POST, as get_tasks has it
IngestPosted_raise_for_status(r, ans) ==
    /\ req[r].pc = "gas"
    /\ req' = [req EXCEPT ![r] = [@ EXCEPT !.pc = "done", !.gas = ans, !.resp =
            IF ans.kind = "raise" \/ ans.status_code >= 400
            THEN Error(502, "GAS request failed")
            ELSE Ok200([ok |-> ResponseOk(ans.status_code),
                        status |-> ans.status_code,
                        text |-> Truncate(ans.text_len)])]]
    /\ UNCHANGED <<config, now, sink, vbody, vresult>>

\* ingest, lines 194-197: the webhook raised or answered
IngestPosted(r, ans) ==
    /\ req[r].pc = "gas"
    /\ req' = [req EXCEPT ![r] = [@ EXCEPT !.pc = "done", !.gas = ans, !.resp =
            IF ans.kind = "raise"
            THEN Error(502, "GAS request failed")
            ELSE Ok200([ok |-> ResponseOk(ans.status_code),
                        status |-> ans.status_code,
                        text |-> Truncate(ans.text_len)])]]
    /\ UNCHANGED <<config, now, sink, vbody, vresult>>

Next ==
    \/ Tick
    \/ \E r \in Reqs, c \in Callers, h \in ApiKeyHeaders :
         \E p \in PayloadsOf(c) : IngestBegin(r, c, h, p)
    \/ \E r \in Reqs, llm \in LLMAnswers : IngestExtracted(r, llm)
    \/ \E r \in Reqs, ans \in SinkAnswers : IngestPosted(r, ans)

Spec == Init /\ [][Next]_vars

\* the same service with one request more, for what two requests do
InitPair ==
    /\ SERVER_API_KEY \in {None, "secret"}
    /\ GAS_WEBAPP_URL \in {None, "https://gas"}
    /\ OPENAI_API_KEY \in {None, "sk"}
    /\ now = 1
    /\ req = [r \in 1..(MaxReq + 1) |-> NoReq]
    /\ sink = {}
    /\ vbody = <<>>
    /\ vresult = <<>>

SpecPair == InitPair /\ [][Next]_vars

-----------------------------------------------------------------------------
(***************************************************************************)
(* SpecValidate: validate_task_fields on every body over the texts below.  *)
(***************************************************************************)
ValChars == {" ", "ya", "dare", "ki", "gen", "?"}

RECURSIVE SeqsUpTo(_, _)
SeqsUpTo(S, n) ==
    IF n = 0 THEN {<<>>}
    ELSE LET shorter == SeqsUpTo(S, n - 1)
         IN  shorter \cup {Append(s, c) : s \in shorter, c \in S}

\* every text of at most MaxLen characters, and longer ones for the long
\* marker, the full-width question mark and whitespace around a value
ValTexts ==
    SeqsUpTo(ValChars, MaxLen)
    \cup { <<"tan", "tou", "de", "su", "ka">>, <<"tan", "tou">>,
           <<"ya", "tan", "tou", "de", "su", "ka">>,
           <<"qf">>, <<"1", "2", "qf">>, <<" ", "ya", "ma", " ">>,
           <<" ", "1", "2", " ", " ">> }

ValBodies ==
    { DropAbsent([tantou |-> a, kigen |-> g]) :
        a \in ValTexts \cup {Absent}, g \in ValTexts \cup {Absent} }

InitValidate ==
    /\ SERVER_API_KEY = None
    /\ GAS_WEBAPP_URL = None
    /\ OPENAI_API_KEY = None
    /\ now = 1
    /\ req = [r \in 1..MaxReq |-> NoReq]
    /\ sink = {}
    /\ vbody \in ValBodies
    /\ vresult = <<>>

Validate ==
    /\ vresult = <<>>
    /\ vresult' = << validate_task_fields(
                        [token |-> "recora-secret-0324", intent |-> "write",
                         sheet |-> "task-list", body |-> vbody]) >>
    /\ UNCHANGED <<config, now, req, sink, vbody>>

NextValidate == Validate

SpecValidate == InitValidate /\ [][NextValidate]_vars

-----------------------------------------------------------------------------
(***************************************************************************)
(* The rule of the specification for one required field: the value is not  *)
(* empty after trimming and contains none of the markers.  A field that    *)
(* is missing from the body has no value and is not satisfied.             *)
(***************************************************************************)
Satisfied(body, key, markers) ==
    /\ key \in DOMAIN body
    /\ Strip(body[key]) # <<>>
    /\ \A m \in markers : ~Contains(m, body[key])

\* the markers as the lists of lines 141 and 149 spell them
AssigneeMarkerList ==
    { <<"dare">>, <<"tan", "tou", "de", "su", "ka">>, <<"qf">>, <<"?">> }
DueDateMarkerList == { <<"ki", "gen">>, <<"qf">>, <<"?">> }

Validated == vresult # <<>>

\* C7 (as amended): validate_task_fields returns ok exactly when the assignee
\* is non-empty after trimming and contains none of the assignee markers
\* (dare, tantou-desu-ka, full-width ?, ?) and the due date is non-empty
\* after trimming and contains none of the due-date markers (kigen,
\* full-width ?, ?): each field has its own marker list.
C7_OkIffEachFieldPassesItsOwnMarkers ==
    Validated =>
        (vresult[1].ok <=>
            /\ Satisfied(vbody, "tantou", AssigneeMarkerList)
            /\ Satisfied(vbody, "kigen", DueDateMarkerList))

\* C7 witness: a body was accepted whose assignee contains the due-date marker
C7_Witness ==
    /\ Validated
    /\ vresult[1].ok
    /\ "tantou" \in DOMAIN vbody
    /\ Contains(<<"ki", "gen">>, vbody["tantou"])

\* C7 (as claimed): ok exactly when both fields pass one rule with one fixed
\* marker set, the same for the assignee and the due date.
C7_OkIffEachFieldPassesOneMarkerSet ==
    Validated =>
        (vresult[1].ok <=>
            /\ Satisfied(vbody, "tantou", AssigneeMarkerList \cup DueDateMarkerList)
            /\ Satisfied(vbody, "kigen", AssigneeMarkerList \cup DueDateMarkerList))

\* C8: when validation fails, an unsatisfied assignee gets the assignee
\* prompt whatever the due date is, and the due-date prompt is returned
\* exactly when the assignee is satisfied and the due date is not.
C8_FirstUnsatisfiedFieldIsPrompted ==
    (Validated /\ ~vresult[1].ok) =>
        /\ vresult[1].needs_user
        /\ ~Satisfied(vbody, "tantou", AssigneeMarkerList)
               => vresult[1].message = TantouPrompt
        /\ vresult[1].message = KigenPrompt
               <=> /\ Satisfied(vbody, "tantou", AssigneeMarkerList)
                   /\ ~Satisfied(vbody, "kigen", DueDateMarkerList)

\* C8 witness: both fields were unsatisfied and the assignee was asked for
C8_Witness ==
    /\ Validated
    /\ ~vresult[1].ok
    /\ ~Satisfied(vbody, "tantou", AssigneeMarkerList)
    /\ ~Satisfied(vbody, "kigen", DueDateMarkerList)
    /\ "kigen" \in DOMAIN vbody
    /\ vresult[1].message = TantouPrompt

-----------------------------------------------------------------------------
(***************************************************************************)
(* Claims about ingest, checked under Spec.                                *)
(***************************************************************************)
\* the POSTs request r issued
Posts(r) == {p \in sink : p.req = r}

\* request r was answered with a returned value (HTTP 200), not an exception
Answered(r) == Done(r) /\ req[r].resp.http = 200

\* request r was answered with a clarification prompt
NeedsUserAnswer(r) == Answered(r) /\ "needs_user" \in DOMAIN req[r].resp.body

\* request r was answered with an HTTP error status
Failed(r) == Done(r) /\ req[r].resp.http >= 400

\* C2: a POST is issued only for a command whose assignee and due date are
\* both non-empty after trimming and free of their markers, and a request
\* answered with needs_user issued no POST.
C2_PostOnlyAfterValidation ==
    /\ \A p \in sink :
           /\ Satisfied(p.json.body, "tantou", AssigneeMarkerList)
           /\ Satisfied(p.json.body, "kigen", DueDateMarkerList)
           /\ req[p.req].pc \in {"gas", "done"}
    /\ \A r \in Reqs : NeedsUserAnswer(r) => Posts(r) = {}

\* C2 witness: a command was posted and its request answered
C2_Witness ==
    \E r \in Reqs : Posts(r) # {} /\ Answered(r) /\ req[r].resp.body.ok

\* C3 (as amended): every command sent to the sink carries in tsuikabi the
\* date the server read at line 90 of the request that sent it, before the
\* model call, whatever the model put or did not put into that field.
C3_DateIsTheOneReadBeforeTheModelCall ==
    \A p \in sink :
        /\ "tsuikabi" \in DOMAIN p.json.body
        /\ p.json.body["tsuikabi"] = req[p.req].today
        /\ \E d \in Days : req[p.req].today = strftime(d) /\ d <= now

\* C3 witness: a command was sent whose date the model had left out or had
\* set to another value, and the clock passed midnight before the dispatch
C3_Witness ==
    \E p \in sink :
        /\ Get(req[p.req].llm.data["body"], "tsuikabi", Absent) # req[p.req].today
        /\ p.day # req[p.req].today

\* C3 (as claimed): every command sent to the sink carries in tsuikabi the
\* server's current date at the time of the dispatch.
C3_DateIsTheDateOfDispatch ==
    \A p \in sink :
        /\ "tsuikabi" \in DOMAIN p.json.body
        /\ p.json.body["tsuikabi"] = p.day

\* C4 (as claimed): when the model's content is not JSON the request fails
\* with status 502 and nothing is sent to the sink.
C4_NonJsonIs502 ==
    \A r \in Reqs :
        (Done(r) /\ req[r].llm.kind = "text") =>
            (req[r].resp.http = 502 /\ Posts(r) = {})

\* C5 (as claimed): a request whose header is missing, or differs from
\* SERVER_API_KEY, is rejected with 401 before any model call and any POST,
\* whether SERVER_API_KEY is set or not.
C5_MissingOrWrongKeyIs401 ==
    \A r \in Reqs :
        (req[r].pc # "idle"
         /\ (req[r].x_api_key = None \/ req[r].x_api_key # SERVER_API_KEY)) =>
            /\ Done(r)
            /\ req[r].resp.http = 401
            /\ req[r].llm.kind = "none"
            /\ Posts(r) = {}

\* the webhook answered request r with a status outside 200..299
SinkRejected(r) ==
    /\ Done(r)
    /\ req[r].gas.kind = "response"
    /\ ~(req[r].gas.status_code >= 200 /\ req[r].gas.status_code < 300)

\* the webhook could not be reached for request r
SinkUnavailable(r) == Done(r) /\ req[r].gas.kind = "raise"

\* C6 (as amended): when the sink answers with a non-2xx status, ingest
\* answers with HTTP 200 and a body that relays the sink's status, with ok
\* false when that status is 400 or more; when the sink is unreachable
\* ingest fails with HTTP 502.  The two cases differ in the HTTP status.
C6_SinkRejectedIsRelayedWith200 ==
    \A r \in Reqs :
        /\ SinkRejected(r) =>
              /\ req[r].resp.http = 200
              /\ req[r].resp.body.status = req[r].gas.status_code
              /\ req[r].gas.status_code >= 400 => ~req[r].resp.body.ok
        /\ SinkUnavailable(r) =>
              /\ req[r].resp.http = 502
              /\ req[r].resp.detail = "GAS request failed"

\* C6 witness: the sink answered a request with status 500
C6_Witness ==
    \E r \in Reqs : SinkRejected(r) /\ req[r].gas.status_code = 500

\* C6 (as claimed): a non-2xx answer of the sink is reported with HTTP 502,
\* as an unreachable sink is.
C6_SinkRejectedIs502 ==
    \A r \in Reqs :
        (SinkRejected(r) \/ SinkUnavailable(r)) => req[r].resp.http = 502

\* the model answered request r with an object without a body, or with a
\* body without the assignee or without the due date
LacksRequiredKeys(r) ==
    /\ Done(r)
    /\ req[r].llm.kind = "dict"
    /\ \/ "body" \notin DOMAIN req[r].llm.data
       \/ ~({"tantou", "kigen"} \subseteq DOMAIN req[r].llm.data["body"])

\* the model answered request r with an object without a body or without
\* the assignee
LacksAssignee(r) ==
    /\ LacksRequiredKeys(r)
    /\ \/ "body" \notin DOMAIN req[r].llm.data
       \/ "tantou" \notin DOMAIN req[r].llm.data["body"]

PlainText(r) ==
    /\ user_text(req[r].payload) # <<>>
    /\ ~AnyIn(AssigneeMarkerList \cup DueDateMarkerList, req[r].payload["user_text"])

\* q is the next request of r's caller after r was answered
NextOfCaller(r, q) ==
    /\ r \in req[q].after
    /\ req[q].caller = req[r].caller
    /\ \A m \in Reqs : (r \in req[m].after /\ req[m].caller = req[r].caller) => q <= m

\* C1 (as claimed): after a request was answered with the due-date prompt,
\* the next request of the same caller with a non-empty, non-interrogative
\* text is not extracted by the model; its text becomes the due date of the
\* stored command, and that command is sent to the sink.
C1_FollowUpIsMerged ==
    \A r, q \in Reqs :
        (/\ NeedsUserAnswer(r)
         /\ req[r].resp.body.message = KigenPrompt
         /\ NextOfCaller(r, q)
         /\ Done(q)
         /\ ~Unauthorized(req[q].x_api_key)
         /\ PlainText(q)
         /\ GAS_WEBAPP_URL # None) =>
            /\ req[q].llm.kind = "none"
            /\ \E p \in Posts(q) :
                 p.json = [req[r].gas_payload EXCEPT
                              !.body["kigen"] = user_text(req[q].payload)]

\* the model answered request r with a command that has both required
\* fields satisfied, so that request r got as far as the POST
Complete(r) ==
    /\ req[r].pc \in {"gas", "done"}
    /\ req[r].llm.kind = "dict"
    /\ "body" \in DOMAIN req[r].llm.data
    /\ Satisfied(req[r].llm.data["body"], "tantou", AssigneeMarkerList)
    /\ Satisfied(req[r].llm.data["body"], "kigen", DueDateMarkerList)

\* C10 (as claimed): of two requests with the same idempotency key, each
\* with a complete command, exactly one is sent to the sink and the other
\* is answered as a suppressed duplicate of that key.
C10_SameKeyIsSentOnce ==
    \A r, q \in Reqs :
        (/\ r # q
         /\ GAS_WEBAPP_URL # None
         /\ Complete(r) /\ Complete(q)
         /\ req[r].payload["idempotency_key"] = req[q].payload["idempotency_key"]) =>
            /\ Cardinality(Posts(r) \cup Posts(q)) = 1
            /\ \E d \in {r, q} :
                 /\ Posts(d) = {}
                 /\ Answered(d)
                 /\ "duplicate" \in DOMAIN req[d].resp.body

====
